---- MODULE Spec2Model ----
(***************************************************************************)
(* Model of the Broadcaster controller (src/unnamed/part_001), the         *)
(* AudioRecorder it drives (src/unnamed/part_000) and its debounced        *)
(* transcript persistence.  One action per handler / continuation of an    *)
(* await; everything between two awaits is one atomic step, as on the      *)
(* single JavaScript thread.  The AudioRecorder is also driven directly,   *)
(* through start() and stop() in any order, with release steps that may    *)
(* throw, and the store with calls that may fail.                          *)
(***************************************************************************)
EXTENDS Integers, Sequences, FiniteSets, TLC

\* ---------------------------------------------------------------- bounds
\* toggleBroadcast start sequences begun in one run
MaxStarts == 2
\* characters the transcript may grow to
MaxTranscript == 3
\* parts carried by one content event
MaxParts == 2
\* granularity of the passage of time, in ms
TickMs == 1000
\* text deltas in the runs that include the store or the controller
MaxStored == 2
\* AudioRecorder objects in the runs that drive a recorder directly
MaxRecorders == 1
\* samples in a buffer given to convertFloat32ToInt16
MaxSamples == 2
\* bytes in a buffer given to arrayBufferToBase64
MaxBytes == 3
\* tools in useTools
MaxTools == 3

\* ------------------------------------------------------ program constants
\* wait of debounce(..., 2000)
DebounceMs == 2000

Chars == {"a", "b"}
SessionIds == {"s1", "s2"}
Sources == {"microphone", "screen_tab"}
GraphOutcomes == {"ok", "ctx", "src", "proc"}
Blocks == {"quiet", "loud"}

VARIABLES
    isRecording,    \* useState(false)
    micVolume,      \* useState(0): 0, or 1 for any positive rms
    audioSource,    \* useState('microphone')
    recorderRef,    \* useRef(null): 0, or the index of an AudioRecorder
    recorders,      \* the AudioRecorder objects created so far
    streams,        \* the MediaStreams handed out by the browser
    tasks,          \* asynchronous calls suspended at an await
    connected,      \* whether the live connection is open
    starts,         \* start sequences begun
    gen,            \* capture sessions entered (setIsRecording(true))
    halted,         \* log: the recorders stopped since they last started
    transcriptRef,  \* useRef(''): the transcript, a sequence of characters
    sessionIdRef,   \* useRef(''), set by the mount effect
    timeout,        \* debounce's `timeout`: id of the timer last set, 0 = none
    timers,         \* pending setTimeout timers
    timerSeq,       \* timer ids handed out
    sinceDelta,     \* ms since the last text delta (capped)
    ops,            \* debouncedSave invocations awaiting the store
    store,          \* rows of table transcripts
    issued,         \* log: persistence operations issued, in order
    deltas,         \* log: the text deltas appended, in arrival order
    bursts,         \* log: the bursts of deltas: size, and gap before it
    overlap,        \* log: an operation was issued while another was running
    last,           \* log: the controller or store step taken last
    tools,          \* useTools: the tools, in order
    float32,        \* the samples convertFloat32ToInt16 was last given
    int16,          \* the Int16Array it returned
    bytes,          \* the bytes arrayBufferToBase64 was last given
    base64          \* the string it returned, character by character

ctlVars == <<isRecording, micVolume, audioSource, recorderRef, recorders,
             streams, tasks, connected, starts, gen, halted>>
txtVars == <<transcriptRef, sessionIdRef, timeout, timers, timerSeq,
             sinceDelta, deltas, bursts>>
dbVars == <<ops, store, issued, overlap>>
libVars == <<tools, float32, int16, bytes, base64>>
vars == <<ctlVars, txtVars, dbVars, last, libVars>>

GapCap == DebounceMs + 1

Min(a, b) == IF a < b THEN a ELSE b

\* the log entry of a step: its kind, and what the step saw
Last(op) == [op |-> op, saw |-> FALSE, cancelled |-> FALSE, streaming |-> FALSE,
             n |-> 0, raised |-> FALSE, fault |-> "none", emitted |-> <<>>,
             sent |-> <<>>]

RemoveAt(s, i) == [k \in 1..(Len(s) - 1) |-> IF k < i THEN s[k] ELSE s[k + 1]]

\* ------------------------------------------------------------ AudioRecorder
\* new AudioRecorder(): every handle null
NewRecorder == [stream |-> 0, audioContext |-> FALSE, source |-> FALSE,
                processor |-> FALSE, wired |-> FALSE]

\* AudioRecorder.start after this.stream is set: the graph set-up, which
\* ends "ok" or throws at the AudioContext constructor ("ctx"),
\* createMediaStreamSource ("src") or createScriptProcessor ("proc")
SetupGraphNoWire(s, g) ==
    [stream |-> s,
     audioContext |-> g \in {"ok", "src", "proc"},
     source |-> g \in {"ok", "proc"},
     processor |-> g = "ok",
     wired |-> FALSE]

SetupGraph(s, g) ==
    [stream |-> s,
     audioContext |-> g \in {"ok", "src", "proc"},
     source |-> g \in {"ok", "proc"},
     processor |-> g = "ok",
     wired |-> g = "ok"]

\* AudioRecorder.stop(): the handles of the recorder afterwards
RecorderStopKeepsContext(rec) ==
    [stream |-> 0,
     audioContext |-> rec.audioContext,
     source |-> FALSE,
     processor |-> FALSE,
     wired |-> FALSE]

RecorderStopLeavesProcessor(rec) ==
    [stream |-> 0,
     audioContext |-> FALSE,
     source |-> FALSE,
     processor |-> rec.processor,
     wired |-> rec.wired]

RecorderStop(rec) ==
    [stream |-> 0,
     audioContext |-> IF rec.audioContext THEN FALSE ELSE rec.audioContext,
     source |-> IF rec.source THEN FALSE ELSE rec.source,
     processor |-> IF rec.processor THEN FALSE ELSE rec.processor,
     wired |-> IF rec.processor THEN FALSE ELSE rec.wired]

\* the log halted after stop() returned on the recorder r, which was rec: a
\* started recorder is entered with the stream it captured
Halted(h, r, rec) ==
    IF rec.wired THEN h \cup {[rec |-> r, stream |-> rec.stream]} ELSE h

\* stream.getTracks().forEach(track => track.stop())
TracksStopped(strs, s) ==
    IF s = 0 THEN strs
    ELSE [strs EXCEPT ![s].state = IF @ = "live" THEN "stopped" ELSE @]

\* ---------------------------------------------------------------- controller
MarkCancelled(ts) == [k \in 1..Len(ts) |-> [ts[k] EXCEPT !.cancelled = TRUE]]

StopBroadcastNoDisconnect(ref, recs, strs, ts) ==
    /\ recorders' = IF ref = 0 THEN recs
                    ELSE [recs EXCEPT ![ref] = RecorderStop(@)]
    /\ streams' = IF ref = 0 THEN strs ELSE TracksStopped(strs, recs[ref].stream)
    /\ halted' = IF ref = 0 THEN halted ELSE Halted(halted, ref, recs[ref])
    /\ connected' = connected
    /\ isRecording' = FALSE
    /\ micVolume' = 0
    /\ tasks' = MarkCancelled(ts)
    /\ UNCHANGED <<transcriptRef, sessionIdRef>>

StopBroadcastClearsSession(ref, recs, strs, ts) ==
    /\ recorders' = IF ref = 0 THEN recs
                    ELSE [recs EXCEPT ![ref] = RecorderStop(@)]
    /\ streams' = IF ref = 0 THEN strs ELSE TracksStopped(strs, recs[ref].stream)
    /\ halted' = IF ref = 0 THEN halted ELSE Halted(halted, ref, recs[ref])
    /\ connected' = FALSE
    /\ isRecording' = FALSE
    /\ micVolume' = 0
    /\ tasks' = MarkCancelled(ts)
    /\ transcriptRef' = <<>>
    /\ sessionIdRef' = CHOOSE x \in SessionIds : x # sessionIdRef

\* stopBroadcast(), run with recorderRef.current = ref on the recorders recs
\* and streams strs; ts are the start sequences still suspended, each of
\* which it leaves flagged as having seen a stop
StopBroadcast(ref, recs, strs, ts) ==
    /\ recorders' = IF ref = 0 THEN recs
                    ELSE [recs EXCEPT ![ref] = RecorderStop(@)]
    /\ streams' = IF ref = 0 THEN strs ELSE TracksStopped(strs, recs[ref].stream)
    /\ halted' = IF ref = 0 THEN halted ELSE Halted(halted, ref, recs[ref])
    /\ connected' = FALSE
    /\ isRecording' = FALSE
    /\ micVolume' = 0
    /\ tasks' = MarkCancelled(ts)
    /\ UNCHANGED <<transcriptRef, sessionIdRef>>

NewTask(pc, s) == [pc |-> pc, stream |-> s, rec |-> 0, saw |-> FALSE,
                   cancelled |-> FALSE]

\* onClick of the broadcast button
ToggleBroadcast ==
    /\ IF isRecording
       THEN /\ StopBroadcast(recorderRef, recorders, streams, tasks)
            /\ last' = [Last("stop") EXCEPT !.n = recorderRef, !.streaming =
                            /\ connected
                            /\ recorderRef # 0
                            /\ recorders[recorderRef].wired,
                            !.saw = (timers # {})]
            /\ UNCHANGED <<audioSource, recorderRef, starts, gen>>
       ELSE /\ starts < MaxStarts
            /\ starts' = starts + 1
            /\ tasks' = Append(tasks,
                   NewTask(IF audioSource = "screen_tab" THEN "getDisplayMedia"
                           ELSE "connect", 0))
            /\ last' = Last("start")
            /\ UNCHANGED <<isRecording, micVolume, audioSource, recorderRef,
                           recorders, streams, connected, gen, halted,
                           transcriptRef, sessionIdRef>>
    /\ UNCHANGED <<timeout, timers, timerSeq, sinceDelta, deltas, bursts, dbVars, libVars>>

\* the source buttons: onClick={() => !isRecording && setAudioSource(..)}
SetAudioSource(src) ==
    /\ ~isRecording
    /\ audioSource # src
    /\ audioSource' = src
    /\ last' = Last("source")
    /\ UNCHANGED <<isRecording, micVolume, recorderRef, recorders, streams,
                   tasks, connected, starts, gen, halted, txtVars, dbVars, libVars>>

\* getDisplayMedia settles: "fail" (rejected), "noaudio" (a stream without
\* audio track) or "ok"
GetDisplayMediaDone(i, outcome) ==
    /\ i \in 1..Len(tasks)
    /\ tasks[i].pc = "getDisplayMedia"
    /\ CASE outcome = "fail" ->
              /\ tasks' = RemoveAt(tasks, i)
              /\ last' = [Last("startFailed") EXCEPT !.saw = tasks[i].saw,
                              !.cancelled = tasks[i].cancelled]
              /\ UNCHANGED streams
         [] outcome = "noaudio" ->
              /\ streams' = Append(streams, [kind |-> "display",
                                 state |-> "stopped", onended |-> FALSE])
              /\ tasks' = RemoveAt(tasks, i)
              /\ last' = [Last("startFailed") EXCEPT !.saw = tasks[i].saw,
                              !.cancelled = tasks[i].cancelled]
         [] OTHER ->
              /\ streams' = Append(streams, [kind |-> "display",
                                 state |-> "live", onended |-> TRUE])
              /\ tasks' = [tasks EXCEPT ![i].pc = "connect",
                                        ![i].stream = Len(streams) + 1]
              /\ last' = Last("acquired")
    /\ UNCHANGED <<isRecording, micVolume, audioSource, recorderRef, recorders,
                   connected, starts, gen, halted, txtVars, dbVars, libVars>>

\* await connect() settles
ConnectDone(i, ok, g) ==
    /\ i \in 1..Len(tasks)
    /\ tasks[i].pc = "connect"
    /\ IF ~ok
       THEN /\ g = "ok"
            /\ StopBroadcast(recorderRef, recorders, streams, RemoveAt(tasks, i))
            /\ last' = [Last("startFailed") EXCEPT !.saw = tasks[i].saw,
                            !.cancelled = tasks[i].cancelled]
            /\ UNCHANGED <<recorderRef, gen>>
       ELSE LET r == Len(recorders) + 1
                s == tasks[i].stream
            IN /\ recorderRef' = r
               /\ gen' = gen + 1
               /\ IF s = 0
                  THEN /\ g = "ok"
                       /\ connected' = TRUE
                       /\ isRecording' = TRUE
                       /\ recorders' = Append(recorders, NewRecorder)
                       /\ tasks' = [tasks EXCEPT ![i].pc = "getUserMedia",
                                                 ![i].rec = r, ![i].saw = TRUE]
                       /\ last' = Last("recording")
                       /\ UNCHANGED <<micVolume, streams, halted, transcriptRef,
                                      sessionIdRef>>
                  ELSE IF g = "ok"
                  THEN /\ connected' = TRUE
                       /\ isRecording' = TRUE
                       /\ recorders' = Append(recorders, SetupGraph(s, g))
                       /\ tasks' = RemoveAt(tasks, i)
                       /\ last' = [Last("started") EXCEPT !.saw = TRUE,
                                       !.cancelled = tasks[i].cancelled,
                                       !.n = s]
                       /\ UNCHANGED <<micVolume, streams, halted, transcriptRef,
                                      sessionIdRef>>
                  ELSE \* setIsRecording(true) and the catch's
                       \* setIsRecording(false) fall in this one step
                       /\ StopBroadcast(r, Append(recorders, SetupGraph(s, g)),
                                        streams, RemoveAt(tasks, i))
                       /\ last' = [Last("startFailed") EXCEPT
                                       !.saw = tasks[i].saw,
                                       !.cancelled = tasks[i].cancelled]
    /\ UNCHANGED <<audioSource, starts, timeout, timers, timerSeq, sinceDelta,
                   deltas, bursts, dbVars, libVars>>

\* getUserMedia inside AudioRecorder.start settles; on success the graph
\* set-up follows in the same step
GetUserMediaDone(i, ok, g) ==
    /\ i \in 1..Len(tasks)
    /\ tasks[i].pc = "getUserMedia"
    /\ IF ~ok
       THEN /\ g = "ok"
            /\ StopBroadcast(recorderRef, recorders, streams, RemoveAt(tasks, i))
            /\ last' = [Last("startFailed") EXCEPT !.saw = tasks[i].saw,
                            !.cancelled = tasks[i].cancelled]
       ELSE LET s == Len(streams) + 1
                strs == Append(streams, [kind |-> "mic", state |-> "live",
                                         onended |-> FALSE])
                recs == [recorders EXCEPT ![tasks[i].rec] = SetupGraph(s, g)]
            IN IF g = "ok"
               THEN /\ recorders' = recs
                    /\ streams' = strs
                    /\ tasks' = RemoveAt(tasks, i)
                    /\ last' = [Last("started") EXCEPT !.saw = tasks[i].saw,
                                    !.cancelled = tasks[i].cancelled]
                    /\ UNCHANGED <<isRecording, micVolume, connected, halted,
                                   transcriptRef, sessionIdRef>>
               ELSE /\ StopBroadcast(recorderRef, recs, strs, RemoveAt(tasks, i))
                    /\ last' = [Last("startFailed") EXCEPT !.saw = tasks[i].saw,
                                    !.cancelled = tasks[i].cancelled]
    /\ UNCHANGED <<audioSource, recorderRef, starts, gen, timeout, timers,
                   timerSeq, sinceDelta, deltas, bursts, dbVars, libVars>>

\* the captured display stream ends outside the application: the video
\* track's onended handler runs stopBroadcast()
OnEnded(s) ==
    /\ s \in 1..Len(streams)
    /\ streams[s].state = "live"
    /\ streams[s].onended
    /\ StopBroadcast(recorderRef, recorders, [streams EXCEPT ![s].state = "ended"],
                     tasks)
    /\ last' = [Last("onended") EXCEPT !.n = s, !.streaming =
                    /\ isRecording
                    /\ connected
                    /\ recorderRef # 0
                    /\ recorders[recorderRef].stream = s
                    /\ recorders[recorderRef].wired]
    /\ UNCHANGED <<audioSource, recorderRef, starts, gen, timeout, timers,
                   timerSeq, sinceDelta, deltas, bursts, dbVars, libVars>>

\* ------------------------------------------------ the frame encoder
\* a sample is NaN or a number; the numbers are counted in units of
\* 1 / SampleUnit, fine enough for products that are not integers
SampleUnit == 65536

Sample(k) == [nan |-> FALSE, num |-> k]

\* the samples tried: beyond the range, its ends, the smallest values of
\* either sign, values inside, zero, NaN
Samples ==
    {Sample(k) : k \in {-2 * SampleUnit, -SampleUnit, -(SampleUnit \div 2) - 1,
                        -1, 0, 1, (SampleUnit \div 2) + 1, SampleUnit,
                        2 * SampleUnit}}
    \cup {[nan |-> TRUE, num |-> 0]}

Buffers == UNION {[1..n -> Samples] : n \in 0..MaxSamples}

\* Math.max(-1, Math.min(1, x)) of a number
Clamp(k) ==
    LET m == IF k < SampleUnit THEN k ELSE SampleUnit
    IN IF m > -SampleUnit THEN m ELSE -SampleUnit

\* s < 0 ? s * 0x8000 : s * 0x7FFF, in units of 1 / SampleUnit
ScaledSymmetric(s) == s * 32767

Scaled(s) == IF s < 0 THEN s * 32768 ELSE s * 32767

\* the store into an Int16Array element of the number n / SampleUnit: the
\* fraction is dropped, towards zero, and the integer taken modulo 2^16
\* into the signed range
ToInt16(n) ==
    LET i == IF n >= 0 THEN n \div SampleUnit
             ELSE (n + SampleUnit - 1) \div SampleUnit
    IN ((i + 32768) % 65536) - 32768

\* one iteration of the loop: NaN passes min, max and the comparison as
\* NaN, and an Int16Array stores NaN as 0
ConvertSample(x) == IF x.nan THEN 0 ELSE ToInt16(Scaled(Clamp(x.num)))

ConvertFloat32ToInt16(buf) == [i \in 1..Len(buf) |-> ConvertSample(buf[i])]

\* a call of convertFloat32ToInt16
Convert(buf) ==
    /\ float32' = buf
    /\ int16' = ConvertFloat32ToInt16(buf)
    /\ UNCHANGED <<ctlVars, txtVars, dbVars, last, tools, bytes, base64>>

NextConvert == \E buf \in Buffers : Convert(buf)

\* the bytes tried: they reach the first, the last and the two
\* non-alphanumeric characters of the alphabet
ByteValues == {0, 77, 251, 255}

ByteBuffers == UNION {[1..n -> ByteValues] : n \in 0..MaxBytes}

\* the base64 alphabet of btoa
Alphabet ==
    <<"A", "B", "C", "D", "E", "F", "G", "H", "I", "J", "K", "L", "M",
      "N", "O", "P", "Q", "R", "S", "T", "U", "V", "W", "X", "Y", "Z",
      "a", "b", "c", "d", "e", "f", "g", "h", "i", "j", "k", "l", "m",
      "n", "o", "p", "q", "r", "s", "t", "u", "v", "w", "x", "y", "z",
      "0", "1", "2", "3", "4", "5", "6", "7", "8", "9", "+", "/">>

\* the character of the six-bit value v
Char64(v) == Alphabet[v + 1]

\* btoa(binary) of a string of code units below 256: three units make four
\* characters, a last group of one or two units is padded with '='
RECURSIVE Btoa(_)
Btoa(s) ==
    IF s = <<>> THEN <<>>
    ELSE IF Len(s) = 1
    THEN <<Char64(s[1] \div 4), Char64((s[1] % 4) * 16), "=", "=">>
    ELSE IF Len(s) = 2
    THEN <<Char64(s[1] \div 4), Char64((s[1] % 4) * 16 + s[2] \div 16),
           Char64((s[2] % 16) * 4), "=">>
    ELSE <<Char64(s[1] \div 4), Char64((s[1] % 4) * 16 + s[2] \div 16),
           Char64((s[2] % 16) * 4 + s[3] \div 64), Char64(s[3] % 64)>>
         \o Btoa(SubSeq(s, 4, Len(s)))

\* binary += String.fromCharCode(bytes[i]) for i below len: the code unit
\* of a byte is the byte
BinaryString(bs, len) == [i \in 1..len |-> bs[i] % 65536]

ArrayBufferToBase64OffByOne(bs) ==
    IF bs = <<>> THEN <<>> ELSE Btoa(BinaryString(bs, Len(bs) - 1))

ArrayBufferToBase64(bs) == Btoa(BinaryString(bs, Len(bs)))

\* a call of arrayBufferToBase64
Encode(bs) ==
    /\ bytes' = bs
    /\ base64' = ArrayBufferToBase64(bs)
    /\ UNCHANGED <<ctlVars, txtVars, dbVars, last, tools, float32, int16>>

NextEncode == \E bs \in ByteBuffers : Encode(bs)

\* ---------------------------------------------------- onaudioprocess
\* the samples of the block b: silence, or both ends of the range
BlockSamples(b) ==
    IF b = "quiet" THEN <<Sample(0), Sample(0)>>
    ELSE <<Sample(SampleUnit), Sample(-SampleUnit)>>

\* pcm16.buffer: the bytes of an Int16Array, two for each element, the low
\* byte first
Int16Bytes(xs) ==
    [k \in 1..(2 * Len(xs)) |->
        LET v == xs[(k + 1) \div 2] % 65536
        IN IF k % 2 = 1 THEN v % 256 ELSE v \div 256]

\* arrayBufferToBase64(convertFloat32ToInt16(inputData).buffer): the payload
\* of the block b
Payload(b) ==
    ArrayBufferToBase64(Int16Bytes(ConvertFloat32ToInt16(BlockSamples(b))))

\* the rms of the block b: 0, or 1 for any positive value
Rms(b) ==
    IF \A i \in 1..Len(BlockSamples(b)) : BlockSamples(b)[i].num = 0 THEN 0
    ELSE 1

\* the events the onaudioprocess callback emits for the block b, in order
OnAudioProcessVolumeIfLoud(b) ==
    <<[ev |-> "data", arg |-> Payload(b)]>> \o
    (IF Rms(b) > 0 THEN <<[ev |-> "volume", arg |-> Rms(b)]>> ELSE <<>>)

OnAudioProcess(b) ==
    <<[ev |-> "data", arg |-> Payload(b)], [ev |-> "volume", arg |-> Rms(b)]>>

\* the 'data' listener of the controller: the sendRealtimeInput calls it
\* makes for the payload p
DataListenerResends(p) ==
    <<[mimeType |-> "audio/pcm;rate=16000", data |-> p],
      [mimeType |-> "audio/pcm;rate=16000", data |-> p]>>

DataListener(p) == <<[mimeType |-> "audio/pcm;rate=16000", data |-> p]>>

\* emit(...) to the listeners of the controller, event by event: the calls
\* of sendRealtimeInput made, and the volume set last
RECURSIVE Sends(_)
Sends(evs) ==
    IF evs = <<>> THEN <<>>
    ELSE (IF Head(evs).ev = "data" THEN DataListener(Head(evs).arg) ELSE <<>>)
         \o Sends(Tail(evs))

RECURSIVE VolumeAfter(_, _)
VolumeAfter(evs, v) ==
    IF evs = <<>> THEN v
    ELSE VolumeAfter(Tail(evs),
                     IF Head(evs).ev = "volume" THEN Head(evs).arg ELSE v)

\* processor.onaudioprocess of recorder r for the block b of samples: the
\* 'data' listener forwards the payload, the 'volume' listener runs
\* setMicVolume
AudioProcess(r, b) ==
    /\ r \in 1..Len(recorders)
    /\ recorders[r].wired
    /\ LET evs == OnAudioProcess(b)
       IN /\ micVolume' = VolumeAfter(evs, micVolume)
          /\ last' = [Last("audio") EXCEPT !.n = r, !.emitted = evs,
                          !.sent = Sends(evs)]
    /\ UNCHANGED <<isRecording, audioSource, recorderRef, recorders, streams,
                   tasks, connected, starts, gen, halted, txtVars, dbVars, libVars>>

\* ------------------------------------------- an AudioRecorder driven directly
\* the release steps of stop() that may throw
Faults == {"processor", "source", "track", "close"}

\* new AudioRecorder(), with the listeners of the controller registered
RecNew ==
    /\ Len(recorders) < MaxRecorders
    /\ recorders' = Append(recorders, NewRecorder)
    /\ last' = [Last("new") EXCEPT !.n = Len(recorders) + 1]
    /\ UNCHANGED <<isRecording, micVolume, audioSource, recorderRef, streams,
                   tasks, connected, starts, gen, halted, txtVars, dbVars, libVars>>

\* start(): the call up to its await of getUserMedia.  The caller starts a
\* recorder that holds nothing, one call at a time
RecStart(r) ==
    /\ r \in 1..Len(recorders)
    /\ recorders[r] = NewRecorder
    /\ \A k \in 1..Len(tasks) : tasks[k].rec # r
    /\ starts < MaxStarts
    /\ starts' = starts + 1
    /\ tasks' = Append(tasks, [NewTask("start", 0) EXCEPT !.rec = r])
    /\ last' = [Last("startCalled") EXCEPT !.n = r]
    /\ UNCHANGED <<isRecording, micVolume, audioSource, recorderRef, recorders,
                   streams, connected, gen, halted, txtVars, dbVars, libVars>>

\* what start() leaves of the recorder rec when getUserMedia rejects: the
\* catch logs and rethrows
AcquireFailedPartial(rec) == [rec EXCEPT !.audioContext = TRUE]

AcquireFailed(rec) == rec

\* getUserMedia of the start() call i settles; the graph set-up follows
RecAcquired(i, ok, g) ==
    /\ i \in 1..Len(tasks)
    /\ tasks[i].pc = "start"
    /\ LET r == tasks[i].rec
           s == Len(streams) + 1
       IN IF ~ok
          THEN /\ g = "ok"
               /\ recorders' = [recorders EXCEPT ![r] = AcquireFailed(@)]
               /\ last' = [Last("acquireFailed") EXCEPT !.n = r, !.raised = TRUE]
               /\ UNCHANGED <<streams, halted>>
          ELSE /\ streams' = Append(streams, [kind |-> "mic", state |-> "live",
                                              onended |-> FALSE])
               /\ recorders' = [recorders EXCEPT ![r] = SetupGraph(s, g)]
               /\ halted' = {h \in halted : h.rec # r \/ g # "ok"}
               /\ last' = IF g = "ok" THEN [Last("recStarted") EXCEPT !.n = r]
                          ELSE [Last("graphFailed") EXCEPT !.n = r,
                                    !.raised = TRUE]
    /\ tasks' = RemoveAt(tasks, i)
    /\ UNCHANGED <<isRecording, micVolume, audioSource, recorderRef, connected,
                   starts, gen, txtVars, dbVars, libVars>>

\* start(stream) with a stream the caller acquired: no await, the graph
\* set-up runs at once
RecStartWith(r, g) ==
    /\ r \in 1..Len(recorders)
    /\ recorders[r] = NewRecorder
    /\ \A k \in 1..Len(tasks) : tasks[k].rec # r
    /\ starts < MaxStarts
    /\ starts' = starts + 1
    /\ streams' = Append(streams, [kind |-> "display", state |-> "live",
                                   onended |-> FALSE])
    /\ recorders' = [recorders EXCEPT ![r] = SetupGraph(Len(streams) + 1, g)]
    /\ halted' = {h \in halted : h.rec # r \/ g # "ok"}
    /\ last' = IF g = "ok" THEN [Last("recStarted") EXCEPT !.n = r]
               ELSE [Last("graphFailed") EXCEPT !.n = r, !.raised = TRUE]
    /\ UNCHANGED <<isRecording, micVolume, audioSource, recorderRef, tasks,
                   connected, gen, txtVars, dbVars, libVars>>

\* AudioRecorder.stop() when the release step f throws: the handles after
\* the statements that ran before the throw.  close() returns a promise, a
\* failure of it is a rejection nobody awaits, and stop() runs to its end
RecorderStopFails(rec, f) ==
    CASE f = "processor" -> rec
      [] f = "source" -> [rec EXCEPT !.processor = FALSE, !.wired = FALSE]
      [] f = "track" -> [rec EXCEPT !.processor = FALSE, !.wired = FALSE,
                                    !.source = FALSE]
      [] OTHER -> RecorderStop(rec)

\* stop() on the recorder r; f is "none", or the release step that fails,
\* which is one stop() gets to
RecStop(r, f) ==
    /\ r \in 1..Len(recorders)
    /\ LET rec == recorders[r]
           thrown == f \in {"processor", "source", "track"}
       IN /\ \/ f = "none"
             \/ f = "processor" /\ rec.processor
             \/ f = "source" /\ rec.source
             \/ f = "track" /\ rec.stream # 0
             \/ f = "close" /\ rec.audioContext
          /\ recorders' = [recorders EXCEPT ![r] =
                               IF f = "none" THEN RecorderStop(rec)
                               ELSE RecorderStopFails(rec, f)]
          /\ streams' = IF thrown THEN streams
                        ELSE TracksStopped(streams, rec.stream)
          /\ halted' = IF thrown THEN halted ELSE Halted(halted, r, rec)
          /\ last' = [Last("recStop") EXCEPT !.n = r, !.raised = thrown,
                          !.fault = f, !.streaming = rec.wired,
                          !.saw = (rec # NewRecorder)]
    /\ UNCHANGED <<isRecording, micVolume, audioSource, recorderRef, tasks,
                   connected, starts, gen, txtVars, dbVars, libVars>>

NextRec ==
    \/ RecNew
    \/ \E r \in 1..MaxRecorders : RecStart(r)
    \/ \E i \in 1..MaxStarts, ok \in BOOLEAN, g \in GraphOutcomes :
           RecAcquired(i, ok, g)
    \/ \E r \in 1..MaxRecorders, g \in GraphOutcomes : RecStartWith(r, g)
    \/ \E r \in 1..MaxRecorders, f \in Faults \cup {"none"} : RecStop(r, f)
    \/ \E r \in 1..MaxRecorders, b \in Blocks : AudioProcess(r, b)

NextCtl ==
    \/ ToggleBroadcast
    \/ \E src \in Sources : SetAudioSource(src)
    \/ \E i \in 1..MaxStarts, o \in {"fail", "noaudio", "ok"} :
           GetDisplayMediaDone(i, o)
    \/ \E i \in 1..MaxStarts, ok \in BOOLEAN, g \in GraphOutcomes :
           ConnectDone(i, ok, g)
    \/ \E i \in 1..MaxStarts, ok \in BOOLEAN, g \in GraphOutcomes :
           GetUserMediaDone(i, ok, g)
    \/ \E s \in 1..MaxStarts : OnEnded(s)
    \/ \E r \in 1..MaxStarts, b \in Blocks : AudioProcess(r, b)

InitCtl ==
    /\ isRecording = FALSE
    /\ micVolume = 0
    /\ audioSource = "microphone"
    /\ recorderRef = 0
    /\ recorders = <<>>
    /\ streams = <<>>
    /\ tasks = <<>>
    /\ connected = FALSE
    /\ starts = 0
    /\ gen = 0
    /\ halted = {}

\* ------------------------------------------------- transcript and debounce
\* the function debounce(func, 2000) returns, called with args while the
\* debounce state is d = [timeout, timers, timerSeq]
DebouncedNoClear(d, args) ==
    [timeout |-> d.timerSeq + 1,
     timers |-> d.timers \cup
                {[id |-> d.timerSeq + 1, left |-> DebounceMs, args |-> args]},
     timerSeq |-> d.timerSeq + 1]

DebouncedKeepsFirst(d, args) ==
    IF \E t \in d.timers : t.id = d.timeout
    THEN d
    ELSE [timeout |-> d.timerSeq + 1,
          timers |-> d.timers \cup
                     {[id |-> d.timerSeq + 1, left |-> DebounceMs, args |-> args]},
          timerSeq |-> d.timerSeq + 1]

Debounced(d, args) ==
    [timeout |-> d.timerSeq + 1,
     timers |-> {t \in d.timers : t.id # d.timeout} \cup
                {[id |-> d.timerSeq + 1, left |-> DebounceMs, args |-> args]},
     timerSeq |-> d.timerSeq + 1]

\* one iteration of parts.forEach in handleContent, on the state
\* st = [transcript, d, deltas, bursts, sinceDelta].  The logs: deltas takes
\* the text appended; bursts counts the deltas of each burst, a burst being
\* begun by a delta that arrives DebounceMs or more after the one before
HandlePartSavesDelta(st, part) ==
    IF part.hasText /\ part.text # <<>>
    THEN [transcript |-> st.transcript \o part.text,
          d |-> Debounced(st.d, part.text),
          deltas |-> Append(st.deltas, part.text),
          bursts |-> IF st.sinceDelta >= DebounceMs
                     THEN Append(st.bursts, [n |-> 1, gap |-> st.sinceDelta])
                     ELSE [st.bursts EXCEPT ![Len(st.bursts)].n = @ + 1],
          sinceDelta |-> 0]
    ELSE st

HandlePartPrepends(st, part) ==
    IF part.hasText /\ part.text # <<>>
    THEN [transcript |-> part.text \o st.transcript,
          d |-> Debounced(st.d, part.text \o st.transcript),
          deltas |-> Append(st.deltas, part.text),
          bursts |-> IF st.sinceDelta >= DebounceMs
                     THEN Append(st.bursts, [n |-> 1, gap |-> st.sinceDelta])
                     ELSE [st.bursts EXCEPT ![Len(st.bursts)].n = @ + 1],
          sinceDelta |-> 0]
    ELSE st

\* a handleContent that acted only while recording
HandlePartDropsWhenIdle(st, part) ==
    IF part.hasText /\ part.text # <<>>
    THEN IF isRecording
         THEN [transcript |-> st.transcript \o part.text,
               d |-> Debounced(st.d, st.transcript \o part.text),
               deltas |-> Append(st.deltas, part.text),
               bursts |-> IF st.sinceDelta >= DebounceMs
                          THEN Append(st.bursts, [n |-> 1, gap |-> st.sinceDelta])
                          ELSE [st.bursts EXCEPT ![Len(st.bursts)].n = @ + 1],
               sinceDelta |-> 0]
         ELSE [st EXCEPT !.deltas = Append(st.deltas, part.text)]
    ELSE st

HandlePart(st, part) ==
    IF part.hasText /\ part.text # <<>>
    THEN [transcript |-> st.transcript \o part.text,
          d |-> Debounced(st.d, st.transcript \o part.text),
          deltas |-> Append(st.deltas, part.text),
          bursts |-> IF st.sinceDelta >= DebounceMs
                     THEN Append(st.bursts, [n |-> 1, gap |-> st.sinceDelta])
                     ELSE [st.bursts EXCEPT ![Len(st.bursts)].n = @ + 1],
          sinceDelta |-> 0]
    ELSE st

RECURSIVE HandleParts(_, _)
HandleParts(st, parts) ==
    IF parts = <<>> THEN st
    ELSE HandleParts(HandlePart(st, Head(parts)), Tail(parts))

\* a part of a model turn: without text, with the empty text, with a text
Parts == {[hasText |-> FALSE, text |-> <<>>], [hasText |-> TRUE, text |-> <<>>]}
         \cup {[hasText |-> TRUE, text |-> <<c>>] : c \in Chars}

\* a server content event: without model turn, or with up to MaxParts parts
Events == {[hasTurn |-> FALSE, parts |-> <<>>]} \cup
          {[hasTurn |-> TRUE, parts |-> ps] :
               ps \in UNION {[1..n -> Parts] : n \in 0..MaxParts}}

\* client 'content' event: handleContent(serverContent).  A timer that is
\* due runs before the event is handled
HandleContent(ev) ==
    LET st0 == [transcript |-> transcriptRef,
                d |-> [timeout |-> timeout, timers |-> timers,
                       timerSeq |-> timerSeq],
                deltas |-> deltas, bursts |-> bursts,
                sinceDelta |-> sinceDelta]
        st == IF ev.hasTurn THEN HandleParts(st0, ev.parts) ELSE st0
    IN /\ \A t \in timers : t.left > 0
       /\ Len(st.deltas) <= MaxTranscript
       /\ transcriptRef' = st.transcript
       /\ timeout' = st.d.timeout
       /\ timers' = st.d.timers
       /\ timerSeq' = st.d.timerSeq
       /\ deltas' = st.deltas
       /\ bursts' = st.bursts
       /\ sinceDelta' = st.sinceDelta
       /\ UNCHANGED <<ctlVars, sessionIdRef, dbVars, last, libVars>>

\* time passes: by TickMs, or up to the next timer's deadline if that is
\* sooner; a timer that is due runs before time passes further
Tick ==
    LET lefts == {t.left : t \in timers}
        d == IF lefts = {} THEN TickMs
             ELSE Min(TickMs, CHOOSE m \in lefts : \A x \in lefts : m <= x)
    IN /\ d > 0
       /\ sinceDelta < GapCap
       /\ timers' = {[t EXCEPT !.left = @ - d] : t \in timers}
       /\ sinceDelta' = Min(sinceDelta + d, GapCap)
       /\ UNCHANGED <<ctlVars, transcriptRef, sessionIdRef, timeout, timerSeq,
                      deltas, bursts, dbVars, last, libVars>>

\* a timer of debounce is due: func(...args), i.e. debouncedSave(text) up to
\* its first await (the select)
TimerFire(t) ==
    /\ t \in timers
    /\ t.left = 0
    /\ timers' = timers \ {t}
    /\ ops' = ops \cup {[n |-> Len(issued) + 1, sid |-> sessionIdRef,
                         text |-> t.args, pc |-> "select", id |-> 0]}
    /\ issued' = Append(issued, [sid |-> sessionIdRef, text |-> t.args,
                                 gen |-> gen])
    /\ overlap' = (overlap \/ ops # {})
    /\ UNCHANGED <<ctlVars, transcriptRef, sessionIdRef, timeout, timerSeq,
                   sinceDelta, deltas, bursts, store, last, libVars>>

\* ------------------------------------------------------------- persistence
\* select('id').eq('session_id', sid).single(): the id of the one matching
\* row; no data (0) when no row or more than one row matches
SelectSingle(rows, sid) ==
    LET m == {r \in rows : r.session_id = sid}
    IN IF Cardinality(m) = 1 THEN (CHOOSE r \in m : TRUE).id ELSE 0

\* the select of operation o is answered; debouncedSave branches on data?.id
\* and sends the update or the insert
SelectDoneAlwaysInsert(o) ==
    /\ o \in ops
    /\ o.pc = "select"
    /\ ops' = (ops \ {o}) \cup {[o EXCEPT !.pc = "insert", !.id = 0]}
    /\ UNCHANGED <<ctlVars, txtVars, store, issued, overlap, last, libVars>>

SelectDone(o) ==
    /\ o \in ops
    /\ o.pc = "select"
    /\ LET id == SelectSingle(store, o.sid)
       IN ops' = (ops \ {o}) \cup
                 {[o EXCEPT !.pc = IF id # 0 THEN "update" ELSE "insert",
                            !.id = id]}
    /\ UNCHANGED <<ctlVars, txtVars, store, issued, overlap, last, libVars>>

\* the store applies the update or insert of operation o
WriteDone(o) ==
    /\ o \in ops
    /\ o.pc \in {"update", "insert"}
    /\ IF o.pc = "update"
       THEN /\ store' = {IF r.id = o.id THEN [r EXCEPT !.text = o.text] ELSE r :
                            r \in store}
            /\ last' = [Last("updated") EXCEPT !.n = o.n]
       ELSE /\ store' = store \cup {[id |-> Cardinality(store) + 1,
                                     session_id |-> o.sid, text |-> o.text]}
            /\ last' = [Last("inserted") EXCEPT !.n = o.n]
    /\ ops' = ops \ {o}
    /\ UNCHANGED <<ctlVars, txtVars, issued, overlap, libVars>>

\* how a call of the store fails: it resolves with an error in its result,
\* or its promise rejects
FailureModes == {"error", "reject"}

\* the select of operation o fails.  An error in the result leaves data
\* null, and debouncedSave goes on to the insert; a rejection ends the
\* async function, whose promise nobody handles
SelectFailed(o, mode) ==
    /\ o \in ops
    /\ o.pc = "select"
    /\ IF mode = "error"
       THEN /\ ops' = (ops \ {o}) \cup {[o EXCEPT !.pc = "insert", !.id = 0]}
            /\ last' = [Last("selectError") EXCEPT !.n = o.n]
       ELSE /\ ops' = ops \ {o}
            /\ last' = [Last("unhandled") EXCEPT !.n = o.n, !.raised = TRUE]
    /\ UNCHANGED <<ctlVars, txtVars, store, issued, overlap, libVars>>

\* the update or insert of operation o fails: the store is as it was
SaveFailed(o, mode) ==
    /\ o \in ops
    /\ o.pc \in {"update", "insert"}
    /\ ops' = ops \ {o}
    /\ last' = IF mode = "error" THEN [Last("saveError") EXCEPT !.n = o.n]
               ELSE [Last("unhandled") EXCEPT !.n = o.n, !.raised = TRUE]
    /\ UNCHANGED <<ctlVars, txtVars, store, issued, overlap, libVars>>

NextTxt ==
    \/ \E ev \in Events : HandleContent(ev)
    \/ Tick
    \/ \E t \in timers : TimerFire(t)

NextDb ==
    \/ \E o \in ops : SelectDone(o)
    \/ \E o \in ops : WriteDone(o)

\* ------------------------------------------------------------- useTools
\* the names a caller passes: two that addTool generates, one of its own
ToolNames == {"new_function", "new_function_1", "lookup"}

\* the tools a caller passes to updateTool
UpdatedTools == [name : ToolNames, isEnabled : BOOLEAN]

\* state.tools.some(tool => tool.name === n)
HasName(ts, n) == \E i \in 1..Len(ts) : ts[i].name = n

\* the while loop of addTool, entered with newToolName = name and counter
RECURSIVE NewToolName(_, _, _)
NewToolName(ts, name, counter) ==
    IF HasName(ts, name)
    THEN NewToolName(ts, "new_function_" \o ToString(counter), counter + 1)
    ELSE name

\* the updater of addTool: the tools it returns for the tools ts
AddToolUpdater(ts) ==
    Append(ts, [name |-> NewToolName(ts, "new_function", 1),
                isEnabled |-> TRUE])

\* the updater of removeTool
RemoveToolUpdater(ts, n) == SelectSeq(ts, LAMBDA x : x.name # n)

\* the updater of toggleTool
ToggleToolUpdater(ts, n) ==
    [i \in 1..Len(ts) |->
        IF ts[i].name = n THEN [ts[i] EXCEPT !.isEnabled = ~@] ELSE ts[i]]

\* the updater of updateTool
UpdateToolNoCheck(ts, old, upd) ==
    [i \in 1..Len(ts) |-> IF ts[i].name = old THEN upd ELSE ts[i]]

UpdateToolUpdater(ts, old, upd) ==
    IF old # upd.name /\ HasName(ts, upd.name)
    THEN ts
    ELSE [i \in 1..Len(ts) |-> IF ts[i].name = old THEN upd ELSE ts[i]]

\* the names a caller may name: its own and those of the tools
KnownNames == ToolNames \cup {tools[i].name : i \in 1..Len(tools)}

AddTool ==
    /\ Len(tools) < MaxTools
    /\ tools' = AddToolUpdater(tools)
    /\ UNCHANGED <<ctlVars, txtVars, dbVars, last, float32, int16, bytes,
                   base64>>

RemoveTool(n) ==
    /\ tools' = RemoveToolUpdater(tools, n)
    /\ UNCHANGED <<ctlVars, txtVars, dbVars, last, float32, int16, bytes,
                   base64>>

ToggleTool(n) ==
    /\ tools' = ToggleToolUpdater(tools, n)
    /\ UNCHANGED <<ctlVars, txtVars, dbVars, last, float32, int16, bytes,
                   base64>>

UpdateTool(old, upd) ==
    /\ tools' = UpdateToolUpdater(tools, old, upd)
    /\ UNCHANGED <<ctlVars, txtVars, dbVars, last, float32, int16, bytes,
                   base64>>

NextTools ==
    \/ AddTool
    \/ \E n \in KnownNames : RemoveTool(n)
    \/ \E n \in KnownNames : ToggleTool(n)
    \/ \E old \in KnownNames, upd \in UpdatedTools : UpdateTool(old, upd)

\* after mount: the effects have set sessionIdRef (crypto.randomUUID()) and
\* dbUpdateRef, and registered handleContent
Init ==
    /\ InitCtl
    /\ transcriptRef = <<>>
    /\ sessionIdRef \in SessionIds
    /\ timeout = 0
    /\ timers = {}
    /\ timerSeq = 0
    /\ sinceDelta = GapCap
    /\ ops = {}
    /\ store = {}
    /\ issued = <<>>
    /\ deltas = <<>>
    /\ bursts = <<>>
    /\ overlap = FALSE
    /\ last = Last("mount")
    /\ tools = <<>>
    /\ float32 = <<>>
    /\ int16 = <<>>
    /\ bytes = <<>>
    /\ base64 = <<>>

NextFault ==
    \/ \E o \in ops, mode \in FailureModes : SelectFailed(o, mode)
    \/ \E o \in ops, mode \in FailureModes : SaveFailed(o, mode)

Next == NextCtl \/ NextRec \/ NextTxt \/ NextDb \/ NextFault \/ NextConvert
        \/ NextEncode \/ NextTools

Spec == Init /\ [][Next]_vars

\* the controller and its recorders alone
SpecCtl == Init /\ [][NextCtl]_vars

\* an AudioRecorder driven directly, its release steps failing or not
SpecRec == Init /\ [][NextRec]_vars

\* convertFloat32ToInt16 on every buffer tried
SpecConvert == Init /\ [][NextConvert]_vars

\* arrayBufferToBase64 on every byte buffer tried
SpecEncode == Init /\ [][NextEncode]_vars

\* the tool list of useTools
SpecTools == Init /\ [][NextTools]_vars

\* the transcript and its debounce timer alone
SpecDeb == Init /\ [][NextTxt]_vars

\* the transcript, its debounce timer and the store
NextStore ==
    \/ \E ev \in Events : HandleContent(ev) /\ Len(deltas') <= MaxStored
    \/ Tick
    \/ \E t \in timers : TimerFire(t)
    \/ \E o \in ops : SelectDone(o)
    \/ \E o \in ops : WriteDone(o)

SpecTxt == Init /\ [][NextStore]_vars

\* the same, the calls of the store failing or not
SpecFault == Init /\ [][NextStore \/ NextFault]_vars

\* the transcript and its debounce timer across the stops and starts of a
\* capture from the microphone
TextEvent(c) ==
    [hasTurn |-> TRUE, parts |-> <<[hasText |-> TRUE, text |-> <<c>>]>>]

\* captures from the microphone that start, one start sequence at a time,
\* and events of one text part
NextSession ==
    \/ ToggleBroadcast /\ Len(tasks') <= 1
    \/ \E i \in 1..MaxStarts : ConnectDone(i, TRUE, "ok")
    \/ \E i \in 1..MaxStarts : GetUserMediaDone(i, TRUE, "ok")
    \/ \E c \in Chars : HandleContent(TextEvent(c)) /\ Len(deltas') <= MaxStored
    \/ Tick
    \/ \E t \in timers : TimerFire(t)

SpecSession == Init /\ [][NextSession]_vars

\* the event loop runs a due timer, and time passes
FairDeb == SpecDeb /\ WF_vars(Tick) /\ WF_vars(\E t \in timers : TimerFire(t))

\* ----------------------------------------------------------------- helpers
RECURSIVE Flatten(_)
Flatten(ss) == IF ss = <<>> THEN <<>> ELSE Head(ss) \o Flatten(Tail(ss))

IsPrefix(a, b) == Len(a) <= Len(b) /\ SubSeq(b, 1, Len(a)) = a

\* number of deltas in the bursts 1..k
RECURSIVE BurstEnd(_)
BurstEnd(k) == IF k = 0 THEN 0 ELSE BurstEnd(k - 1) + bursts[k].n

\* the transcript after the first i deltas
TextUpTo(i) == Flatten(SubSeq(deltas, 1, i))

\* the burst k is over: a later burst began, or more than the window passed
BurstOver(k) == k < Len(bursts) \/ (k = Len(bursts) /\ sinceDelta > DebounceMs)

LiveStreams == {s \in 1..Len(streams) : streams[s].state = "live"}
HoldingRecorders ==
    {r \in 1..Len(recorders) :
        recorders[r].stream # 0 \/ recorders[r].wired \/ recorders[r].processor
        \/ recorders[r].source \/ recorders[r].audioContext}

\* ------------------------------------------------------------------ claims

\* C1: the N >= 1 deltas of a burst (each less than DebounceMs after the one
\* before) get exactly one persistence operation: none while the window
\* since the last delta has not elapsed, one once more than the window has
\* passed, and its text is the concatenation of the deltas in arrival order.
C1_DebounceCoalescing ==
    /\ sinceDelta < DebounceMs => Len(issued) = Len(bursts) - 1
    /\ sinceDelta = DebounceMs => Len(issued) \in {Len(bursts) - 1, Len(bursts)}
    /\ sinceDelta > DebounceMs => Len(issued) = Len(bursts)
    /\ \A k \in 1..Len(issued) : issued[k].text = TextUpTo(BurstEnd(k))

\* a burst of two or more deltas, over, with its one operation issued
C1_Witness ==
    /\ Len(bursts) = 1
    /\ bursts[1].n >= 2
    /\ sinceDelta > DebounceMs
    /\ Len(issued) = 1
    /\ issued[1].text = TextUpTo(bursts[1].n)

\* C2: a stop that ran while the one start sequence was suspended at an
\* await discards that attempt: once the sequence has settled, the
\* controller is idle, no recorder holds a device or a graph and the
\* connection is closed.
C2_StopDiscardsInFlightStart ==
    (/\ starts = 1
     /\ tasks = <<>>
     /\ last.op \in {"started", "startFailed"}
     /\ last.cancelled)
    => /\ ~isRecording
       /\ HoldingRecorders = {}
       /\ LiveStreams = {}
       /\ ~connected

\* C3: a start sequence that failed ends idle, with volume 0, and the
\* recording indicator was never true while it ran.
C3_FailedStartNeverStreaming ==
    (starts = 1 /\ last.op = "startFailed")
    => /\ ~isRecording
       /\ micVolume = 0
       /\ ~last.saw

\* C4: after a start sequence failed no track is live, no graph is
\* connected and the connection is not open.
C4_FailedStartReleasesAll ==
    (starts = 1 /\ last.op = "startFailed")
    => /\ LiveStreams = {}
       /\ HoldingRecorders = {}
       /\ ~connected

\* C5: the end-of-stream signal of the display stream a streaming session
\* captures tears the session down as an explicit stop does: the recorder
\* is stopped (no handle left, the tracks of its stream not live), the
\* connection closed, isRecording false, the volume 0.
C5_ExternalInterruption ==
    (last.op = "onended" /\ last.streaming)
    => /\ recorders[recorderRef] = NewRecorder
       /\ streams[last.n].state # "live"
       /\ ~connected
       /\ ~isRecording
       /\ micVolume = 0

C5_Witness == last.op = "onended" /\ last.streaming /\ ~isRecording

\* C6: while the persistence operations ran one after another, the first
\* inserted the one row of the session, with its text, and each later one
\* updated the text of that row; there is no second row.
C6_SequentialUpsert ==
    ~overlap
    => /\ Cardinality(store) <= 1
       /\ last.op = "inserted" =>
            /\ last.n = 1
            /\ store = {[id |-> 1, session_id |-> sessionIdRef,
                         text |-> issued[1].text]}
       /\ last.op = "updated" =>
            /\ last.n > 1
            /\ store = {[id |-> 1, session_id |-> sessionIdRef,
                         text |-> issued[last.n].text]}

C6_Witness ==
    /\ ~overlap
    /\ last.op = "updated"
    /\ last.n = 2
    /\ ops = {}

\* C7: the store never holds more than one row for a session identifier.
C7_NoDuplicateRows ==
    \A sid \in SessionIds :
        Cardinality({r \in store : r.session_id = sid}) <= 1

\* C8: once the window has elapsed since the last delta, a persistence
\* operation with the complete transcript is eventually issued; and it has
\* been issued whenever more than the window has passed.
C8_Quiet == deltas # <<>> /\ sinceDelta >= DebounceMs
C8_Persisted == issued # <<>> /\ issued[Len(issued)].text = Flatten(deltas)
C8_EventualPersistence ==
    /\ [](deltas # <<>> /\ sinceDelta > DebounceMs => C8_Persisted)
    /\ (C8_Quiet ~> C8_Persisted)

C8_Witness == C8_Quiet /\ C8_Persisted /\ Len(deltas) >= 2

\* C9: two consecutive deltas more than the window apart, the second not
\* followed by another within the window, get one operation each: the first
\* with the transcript up to the first delta, the next with the transcript
\* up to the second.
C9_SeparateDeltasTwoOps ==
    \A k \in 1..(Len(bursts) - 1) :
        (/\ bursts[k + 1].n = 1
         /\ bursts[k + 1].gap > DebounceMs
         /\ BurstOver(k + 1))
        => /\ Len(issued) >= k + 1
           /\ issued[k].text = TextUpTo(BurstEnd(k))
           /\ issued[k + 1].text = TextUpTo(BurstEnd(k) + 1)
           /\ Cardinality({j \in 1..Len(issued) :
                  issued[j].text \in {TextUpTo(BurstEnd(k)),
                                      TextUpTo(BurstEnd(k) + 1)}}) = 2

C9_Witness ==
    /\ Len(deltas) = 2
    /\ Len(bursts) = 2
    /\ bursts[2].gap > DebounceMs
    /\ sinceDelta > DebounceMs
    /\ Len(issued) = 2

\* C10, as claimed: a stop clears the transcript buffer, and an operation of
\* a later capture carries another identifier than, and none of the text
\* of, an operation of an earlier capture.
C10_SessionPerCapture ==
    /\ last.op = "stop" => transcriptRef = <<>>
    /\ \A i, j \in 1..Len(issued) :
           issued[i].gen < issued[j].gen
           => /\ issued[i].sid # issued[j].sid
              /\ ~IsPrefix(issued[i].text, issued[j].text)

\* C10, amended: the session is the one of the mount. The buffer always
\* holds every delta since the mount, stops included; every operation
\* carries the identifier of the mount, and the text of every earlier
\* operation is a prefix of the text of every later one.
C10_SessionPerMount ==
    /\ transcriptRef = Flatten(deltas)
    /\ \A k \in 1..Len(issued) : issued[k].sid = sessionIdRef
    /\ \A i, j \in 1..Len(issued) :
           i < j => IsPrefix(issued[i].text, issued[j].text)

\* operations of two captures, a stop between them, under one identifier
C10_Witness ==
    \E i, j \in 1..Len(issued) :
        /\ issued[i].gen = 1
        /\ issued[j].gen = 2
        /\ issued[i].sid = issued[j].sid
        /\ Len(issued[i].text) < Len(issued[j].text)

\* C11: a stop() whose release steps all succeed raises no error, whatever
\* the recorder held (nothing yet, a started graph, nothing any more), and
\* leaves it without stream, source node, processor node and audio context;
\* a second stop() right after it changes neither the recorder nor a track.
C11_StopIdempotent ==
    (last.op = "recStop" /\ last.fault = "none")
    => /\ ~last.raised
       /\ recorders[last.n] = NewRecorder
       /\ RecorderStop(recorders[last.n]) = recorders[last.n]
       /\ TracksStopped(streams, recorders[last.n].stream) = streams

\* a stop() on a recorder that was started and stopped before
C11_Witness ==
    /\ last.op = "recStop"
    /\ last.fault = "none"
    /\ ~last.saw
    /\ \E h \in halted : h.rec = last.n

\* C12: a start() whose getUserMedia is rejected raises the error and leaves
\* the recorder without stream, audio context, source node and processor
\* node; no stream is live that no recorder holds.
C12_AcquisitionFailure ==
    last.op = "acquireFailed"
    => /\ last.raised
       /\ recorders[last.n] = NewRecorder
       /\ \A s \in LiveStreams : \E r \in 1..Len(recorders) :
              recorders[r].stream = s

\* a start() that succeeded on the recorder whose earlier start() failed to
\* acquire the microphone: two calls, the one stream of the second
C12_Witness ==
    /\ Len(recorders) = 1
    /\ starts = 2
    /\ last.op = "recStarted"
    /\ Len(streams) = 1
    /\ streams[1].kind = "mic"
    /\ recorders[1] = SetupGraph(1, "ok")

\* C13: a recorder on which stop() returned while it was started emits no
\* event until it is started again, and no track of the stream it captured
\* is live.
C13_NoEventsAfterStop ==
    \A h \in halted :
        /\ ~(last.op = "audio" /\ last.n = h.rec)
        /\ h.stream \in 1..Len(streams)
        /\ streams[h.stream].state # "live"

\* a recorder stopped after a tick with a positive volume
C13_Witness ==
    /\ last.op = "recStop"
    /\ last.streaming
    /\ ~last.raised
    /\ micVolume = 1
    /\ \E h \in halted : h.rec = last.n

\* the events of kind e among evs, in order
EventsOf(evs, e) == SelectSeq(evs, LAMBDA x : x.ev = e)

\* C14: a tick of a started recorder emits exactly one 'data' and exactly
\* one 'volume' event, whatever the block, and both reach the listeners:
\* the payload is forwarded and the volume is the one set.
C14_OneDataOneVolumePerTick ==
    last.op = "audio"
    => /\ recorders[last.n].wired
       /\ Len(EventsOf(last.emitted, "data")) = 1
       /\ Len(EventsOf(last.emitted, "volume")) = 1
       /\ micVolume = EventsOf(last.emitted, "volume")[1].arg
       /\ \E k \in 1..Len(last.sent) :
              last.sent[k].data = EventsOf(last.emitted, "data")[1].arg

\* a tick with a silent block: both events, the volume 0
C14_Witness ==
    /\ last.op = "audio"
    /\ Len(last.emitted) = 2
    /\ micVolume = 0

\* C15: a toggle on a streaming session leaves the recorder stopped, the
\* connection closed, isRecording false and the volume 0, and the volume
\* does not leave 0 unless a start sequence begins.
C15_SymmetricTeardown ==
    [][(last.op = "stop" /\ last.streaming)
       => /\ ~isRecording
          /\ ~connected
          /\ micVolume = 0
          /\ recorders[last.n] = NewRecorder
          /\ (micVolume' = 0 \/ starts' > starts)]_vars

\* C16, as claimed: whenever the connection is open the recorder of the
\* session holds the audio source, acquired before the connection opened.
C16_AcquireBeforeConnect ==
    connected => (recorderRef # 0 /\ recorders[recorderRef].stream # 0)

\* C16, amended: the order depends on the source. For the shared display
\* the stream is acquired first, then the connection opens and the recorder
\* is started on that stream, wired. For the microphone the connection
\* opens first and the recorder, holding nothing yet, acquires the
\* microphone inside start(); no microphone stream exists before a
\* connection was opened, and no recorder before its connection.
C16_OrderBySource ==
    /\ (last.op = "started" /\ last.n # 0)
       => /\ streams[last.n].kind = "display"
          /\ connected
          /\ recorders[recorderRef].stream = last.n
          /\ recorders[recorderRef].wired
    /\ last.op = "recording"
       => /\ connected
          /\ recorders[recorderRef] = NewRecorder
          /\ \E i \in 1..Len(tasks) :
                 tasks[i].pc = "getUserMedia" /\ tasks[i].rec = recorderRef
    /\ \A s \in 1..Len(streams) : streams[s].kind = "mic" => gen >= 1
    /\ Len(recorders) <= gen

\* a session on the shared display started, and after it the connection of
\* a session on the microphone opened
C16_Witness ==
    /\ last.op = "recording"
    /\ gen = 2
    /\ recorders[1].wired \/ 1 \in {h.rec : h \in halted}
    /\ \E s \in 1..Len(streams) : streams[s].kind = "display"

\* C17: a failing select, insert or update is caught inside the persistence
\* operation, nothing of it reaching an unhandled error; the transcript
\* still holds every delta, and the deltas after the failure still get
\* their debounce timer.
C17_PersistenceFailureContained ==
    /\ last.op \in {"selectError", "saveError", "unhandled"} => ~last.raised
    /\ transcriptRef = Flatten(deltas)
    /\ timerSeq = Len(deltas)
    /\ ~isRecording /\ ~connected /\ recorders = <<>>

\* C18: the transcript is the concatenation, in arrival order, of the
\* non-empty text parts received, and nothing else changes it; each append
\* makes one persistence request, the k-th carrying the transcript after
\* the k-th append; the transcript only grows at its end.
C18_InboundDelivery ==
    /\ [](/\ transcriptRef = Flatten(deltas)
          /\ \A k \in 1..Len(deltas) : deltas[k] # <<>>
          /\ timerSeq = Len(deltas)
          /\ \A t \in timers : t.args = TextUpTo(t.id)
          /\ \A k \in 1..Len(issued) :
                 \E j \in 1..Len(deltas) : issued[k].text = TextUpTo(j))
    /\ [][/\ IsPrefix(transcriptRef, transcriptRef')
          /\ transcriptRef' = transcriptRef => timerSeq' = timerSeq]_vars

\* two different text parts appended with no time between them, the second
\* request pending with both
C18_Witness ==
    /\ Len(deltas) = 2
    /\ deltas[1] # deltas[2]
    /\ sinceDelta = 0
    /\ transcriptRef = deltas[1] \o deltas[2]
    /\ \E t \in timers : t.id = 2 /\ t.args = transcriptRef

\* C19: each 'data' event of a tick is forwarded by exactly one
\* sendRealtimeInput call, made in the same callback, with the payload of
\* the event and the content type audio/pcm;rate=16000, in the order of the
\* events; nothing is held back and nothing is sent a second time.
C19_OneSendPerFrame ==
    last.op = "audio"
    => LET data == EventsOf(last.emitted, "data")
       IN last.sent = [k \in 1..Len(data) |->
                          [mimeType |-> "audio/pcm;rate=16000",
                           data |-> data[k].arg]]

\* a frame forwarded by the recorder of a streaming session
C19_Witness ==
    /\ last.op = "audio"
    /\ isRecording
    /\ connected
    /\ last.n = recorderRef
    /\ Len(last.sent) = 1
    /\ last.sent[1].data = Payload("loud")

\* C20: whichever release step of stop() fails, stop() ends with every
\* handle cleared and no track of the recorder live.
C20_TeardownSurvivesReleaseFailure ==
    last.op = "recStop"
    => /\ recorders[last.n] = NewRecorder
       /\ Len(recorders) = 1 => LiveStreams = {}

\* C21: the buffer convertFloat32ToInt16 returns has the length of its
\* input and every element in -32768..32767; a sample of 1 or more gives
\* 32767, of -1 or less -32768, zero gives 0; a sample inside the range
\* gives its product with 32767 (with 32768 if negative) without its
\* fraction, cut towards zero.
C21_EncoderRange ==
    /\ Len(int16) = Len(float32)
    /\ \A i \in 1..Len(int16) :
           LET x == float32[i]
               y == int16[i]
           IN /\ y \in -32768..32767
              /\ ~x.nan =>
                    /\ x.num >= SampleUnit => y = 32767
                    /\ x.num <= -SampleUnit => y = -32768
                    /\ x.num = 0 => y = 0
                    /\ (0 <= x.num /\ x.num < SampleUnit)
                       => /\ y * SampleUnit <= x.num * 32767
                          /\ x.num * 32767 - y * SampleUnit < SampleUnit
                    /\ (-SampleUnit < x.num /\ x.num < 0)
                       => /\ x.num * 32768 <= y * SampleUnit
                          /\ y * SampleUnit - x.num * 32768 < SampleUnit

\* a sample beyond the range beside a negative one whose product has a
\* fraction
C21_Witness ==
    /\ Len(float32) = 2
    /\ float32[1] = Sample(2 * SampleUnit)
    /\ int16[1] = 32767
    /\ float32[2] = Sample(-1)
    /\ int16[2] = 0

\* the six-bit value of a character of the alphabet
Value64(c) == (CHOOSE v \in 1..64 : Alphabet[v] = c) - 1

\* the standard decoding of a padded base64 string: four characters make
\* three bytes, two with one '=' at the end, one with two
RECURSIVE Atob(_)
Atob(cs) ==
    IF Len(cs) < 4 THEN <<>>
    ELSE LET a == Value64(cs[1])
             b == Value64(cs[2])
         IN IF cs[3] = "=" THEN <<a * 4 + b \div 16>>
            ELSE LET c == Value64(cs[3])
                 IN IF cs[4] = "="
                    THEN <<a * 4 + b \div 16, (b % 16) * 16 + c \div 4>>
                    ELSE <<a * 4 + b \div 16, (b % 16) * 16 + c \div 4,
                           (c % 4) * 64 + Value64(cs[4])>>
                         \o Atob(SubSeq(cs, 5, Len(cs)))

\* C22: the string arrayBufferToBase64 returns is padded base64, four
\* characters for every three bytes begun, and its standard decoding is
\* the bytes it was given, all of them, in their order.
C22_Base64RoundTrip ==
    /\ Len(base64) = 4 * ((Len(bytes) + 2) \div 3)
    /\ Atob(base64) = bytes

\* a buffer whose last group has one byte, with both non-alphanumeric
\* characters in its encoding
C22_Witness ==
    /\ Len(bytes) = 1
    /\ bytes[1] = 251
    /\ base64 = <<"+", "w", "=", "=">>

\* C23: at most one recorder holds an acquired stream, and a recorder that
\* holds one is the recorder of recorderRef.
C23_AtMostOneLiveRecorder ==
    LET holders == {r \in 1..Len(recorders) : recorders[r].stream # 0}
    IN /\ Cardinality(holders) <= 1
       /\ \A r \in holders : r = recorderRef

\* C24: once every persistence operation issued has completed and no timer
\* is pending, the session has a row and each of its rows holds the text
\* of the operation issued last.
C24_StoredTextConverges ==
    (ops = {} /\ timers = {} /\ issued # <<>>)
    => /\ \E r \in store : r.session_id = sessionIdRef
       /\ \A r \in store :
              r.session_id = sessionIdRef => r.text = issued[Len(issued)].text

\* C25: a stop leaves the transcript, the timer of debounce and its
\* arguments as they are; a delta that arrives while idle is appended and
\* arms the timer for the whole window with the transcript that includes
\* it; after a stop, while the window since the last delta has not elapsed
\* the timer is pending with the transcript, and once more than the window
\* has passed the operation issued last carries the transcript.
C25_StopKeepsDebounce ==
    /\ [][(isRecording /\ ~isRecording')
          => /\ timers' = timers
             /\ timeout' = timeout
             /\ transcriptRef' = transcriptRef]_vars
    /\ [][(~isRecording /\ deltas' # deltas)
          => /\ transcriptRef' = transcriptRef \o deltas'[Len(deltas')]
             /\ \E t \in timers' : /\ t.id = timeout'
                                   /\ t.left = DebounceMs
                                   /\ t.args = transcriptRef']_vars
    /\ []((last.op = "stop" /\ deltas # <<>>)
          => /\ sinceDelta < DebounceMs
                => \E t \in timers : t.id = timeout /\ t.args = transcriptRef
             /\ sinceDelta > DebounceMs
                => /\ issued # <<>>
                   /\ issued[Len(issued)].text = transcriptRef)

\* the stop ran with the timer pending, and the operation with the whole
\* transcript was issued after it
C25_Witness ==
    /\ last.op = "stop"
    /\ last.saw
    /\ ~isRecording
    /\ timers = {}
    /\ deltas # <<>>
    /\ issued # <<>>
    /\ issued[Len(issued)].text = Flatten(deltas)

\* C26: no two tools have the same name; addTool would append, to the
\* tools as they are, one tool whose name none of them has; an updateTool
\* that renames to a name a tool already has would return the tools as
\* they are.
C26_ToolNamesUnique ==
    /\ \A i, j \in 1..Len(tools) : i # j => tools[i].name # tools[j].name
    /\ LET ts == AddToolUpdater(tools)
       IN /\ Len(ts) = Len(tools) + 1
          /\ SubSeq(ts, 1, Len(tools)) = tools
          /\ \A i \in 1..Len(tools) : tools[i].name # ts[Len(ts)].name
    /\ \A old \in KnownNames, upd \in UpdatedTools :
           (old # upd.name /\ \E i \in 1..Len(tools) : tools[i].name = upd.name)
           => UpdateToolUpdater(tools, old, upd) = tools

\* three tools: one renamed by updateTool, one with a name addTool had to
\* count up to
C26_Witness ==
    /\ Len(tools) = 3
    /\ \E i \in 1..3 : tools[i].name = "lookup"
    /\ \E i \in 1..3 : tools[i].name = "new_function_2"

====
